---- MODULE Spec2Model ----
(***************************************************************************)
(* Model of the Exec-string interpretation and launch dispatch of dexrs    *)
(* (src/src/exec/mod.rs): DesktopEntry::launch, shell_launch, get_args,    *)
(* with_non_default_gpu, ArgOrFieldCode::try_from and detect_terminal.     *)
(*                                                                         *)
(* Strings are sequences of one-character strings, so that prefix/suffix   *)
(* stripping, whitespace splitting, joining and substring search are       *)
(* computed as the code computes them.  Option<T> is a sequence of length  *)
(* at most one: None is <<>> and Some(x) is <<x>>.                         *)
(***************************************************************************)
EXTENDS Naturals, Sequences, FiniteSets

VARIABLES
    self,       \* the DesktopEntry: exec, icon, name, path, terminal, file
    uris,       \* launch argument `uris`
    gpu,        \* launch argument `prefer_non_default_gpu`
    env,        \* process environment: LANG, SHELL
    bus,        \* session bus: session() outcome, is_bus_actionable, activation outcome
    fs,         \* filesystem seen by detect_terminal: links, files
    gpus,       \* Gpus::load(): switchable, non_default, default
    os,         \* outcome of spawn() and try_wait()
    pc,         \* position inside launch / shell_launch
    call,       \* arguments launch hands to shell_launch or dbus_launch
    exec,       \* shell_launch local `exec` after quote handling
    exec_args,  \* shell_launch local `exec_args` (Vec<ArgOrFieldCode>)
    args,       \* shell_launch local `exec_args` after get_args (Vec<String>)
    term,       \* Option of the (terminal, separator) pair of detect_terminal
    cmd,        \* Option of the Command built
    spawned,    \* Option of the Command handed to spawn()
    activated,  \* sequence of uri lists handed to bus activation
    ret,        \* Option of the callee's return value
    result,     \* Option of the value launch returns
    trace       \* steps executed so far, in order

inputs == <<self, uris, gpu, env, bus, fs, gpus, os>>
locals == <<exec, exec_args, args, term, cmd, spawned, activated, ret>>
vars == <<self, uris, gpu, env, bus, fs, gpus, os, pc, call, exec, exec_args,
          args, term, cmd, spawned, activated, ret, result, trace>>

----------------------------------------------------------------------------
(* Bounds of the explored inputs *)

MaxExecLen == 4
MaxTokens == 2
MaxUris == 2

----------------------------------------------------------------------------
(* Option and string helpers *)

None == <<>>
Some(x) == <<x>>
IsSome(o) == o # <<>>
Unwrap(o) == o[1]

Quote == "\""
Percent == "%"
Space == " "

\* u8::is_ascii_whitespace, as used by str::split_ascii_whitespace
IsAsciiWhitespace(c) == c \in {" ", "\t", "\n", "\f", "\r"}

\* str::strip_prefix(char)
StripPrefix(s, c) ==
    IF Len(s) > 0 /\ s[1] = c THEN Some(Tail(s)) ELSE None

\* str::strip_suffix(char)
StripSuffix(s, c) ==
    IF Len(s) > 0 /\ s[Len(s)] = c THEN Some(SubSeq(s, 1, Len(s) - 1)) ELSE None

\* str::starts_with(char)
StartsWith(s, c) == Len(s) > 0 /\ s[1] = c

\* str::contains(&str)
Contains(s, pat) ==
    \E i \in 1..(Len(s) + 1) :
        /\ i + Len(pat) - 1 <= Len(s)
        /\ \A j \in 1..Len(pat) : s[i + j - 1] = pat[j]

\* str::split_once(char)
SplitOnce(s, c) ==
    IF \E i \in 1..Len(s) : s[i] = c
    THEN LET i == CHOOSE k \in 1..Len(s) :
                      s[k] = c /\ \A m \in 1..(k - 1) : s[m] # c
         IN  Some(<<SubSeq(s, 1, i - 1), SubSeq(s, i + 1, Len(s))>>)
    ELSE None

\* [String]::join(&str)
RECURSIVE Join(_, _)
Join(ss, sep) ==
    IF ss = <<>> THEN <<>>
    ELSE IF Len(ss) = 1 THEN ss[1]
    ELSE ss[1] \o sep \o Join(Tail(ss), sep)

\* str::split_ascii_whitespace: the maximal runs of non-whitespace, in order
RECURSIVE SplitFrom(_, _, _)
SplitFrom(s, cur, acc) ==
    IF s = <<>> THEN (IF cur = <<>> THEN acc ELSE Append(acc, cur))
    ELSE IF IsAsciiWhitespace(Head(s))
         THEN SplitFrom(Tail(s), <<>>, IF cur = <<>> THEN acc ELSE Append(acc, cur))
         ELSE SplitFrom(Tail(s), Append(cur, Head(s)), acc)

SplitAsciiWhitespace(s) == SplitFrom(s, <<>>, <<>>)

----------------------------------------------------------------------------
(* ExecError values and Result *)

Err(tag, val) == [tag |-> tag, val |-> val, code |-> None]
Ok == [tag |-> "Ok", val |-> <<>>, code |-> None]
MissingExecKey(p) == Err("MissingExecKey", p)
UnmatchedQuote(e) == Err("UnmatchedQuote", e)
DeprecatedFieldCode(t) == Err("DeprecatedFieldCode", t)
UnknownFieldCode(t) == Err("UnknownFieldCode", t)
EmptyExecString == Err("EmptyExecString", <<>>)
MissingShellEnvironment == Err("MissingShellEnvironment", <<>>)
IoError == Err("IoError", <<>>)
BusError == Err("BusError", <<>>)
NonZeroStatusCode(status, e) == [tag |-> "NonZeroStatusCode", val |-> e, code |-> status]

IsErr(r) == r.tag \notin {"Ok", "SingleFileName", "FileList", "SingleUrl", "UrlList",
                          "IconKey", "TranslatedName", "DesktopFileLocation", "Arg"}

----------------------------------------------------------------------------
(* ArgOrFieldCode *)

Code(tag) == [tag |-> tag, val |-> <<>>, code |-> None]
Arg(a) == [tag |-> "Arg", val |-> a, code |-> None]

\* faulty variant of TryFrom: the arm of the deprecated codes is missing, so
\* they fall through to the unknown-code arm
TryFromWithoutDeprecatedArm(value) ==
    IF value = <<"%", "f">> THEN Code("SingleFileName")
    ELSE IF value = <<"%", "F">> THEN Code("FileList")
    ELSE IF value = <<"%", "u">> THEN Code("SingleUrl")
    ELSE IF value = <<"%", "U">> THEN Code("UrlList")
    ELSE IF value = <<"%", "i">> THEN Code("IconKey")
    ELSE IF value = <<"%", "c">> THEN Code("TranslatedName")
    ELSE IF value = <<"%", "k">> THEN Code("DesktopFileLocation")
    ELSE IF StartsWith(value, Percent) THEN UnknownFieldCode(value)
    ELSE Arg(value)

\* impl TryFrom<&str> for ArgOrFieldCode
TryFrom(value) ==
    IF value = <<"%", "f">> THEN Code("SingleFileName")
    ELSE IF value = <<"%", "F">> THEN Code("FileList")
    ELSE IF value = <<"%", "u">> THEN Code("SingleUrl")
    ELSE IF value = <<"%", "U">> THEN Code("UrlList")
    ELSE IF value = <<"%", "i">> THEN Code("IconKey")
    ELSE IF value = <<"%", "c">> THEN Code("TranslatedName")
    ELSE IF value = <<"%", "k">> THEN Code("DesktopFileLocation")
    ELSE IF value \in {<<"%", "d">>, <<"%", "D">>, <<"%", "n">>,
                       <<"%", "N">>, <<"%", "v">>, <<"%", "m">>}
         THEN DeprecatedFieldCode(value)
    ELSE IF StartsWith(value, Percent) THEN UnknownFieldCode(value)
    ELSE Arg(value)

\* the loop of shell_launch over exec.split_ascii_whitespace(): the first
\* failing conversion is returned by `?`, otherwise the converted vector
RECURSIVE ClassifyAll(_, _)
ClassifyAll(tokens, acc) ==
    IF tokens = <<>> THEN [err |-> None, vec |-> acc]
    ELSE LET r == TryFrom(Head(tokens))
         IN  IF IsErr(r) THEN [err |-> Some(r), vec |-> acc]
             ELSE ClassifyAll(Tail(tokens), Append(acc, r))

----------------------------------------------------------------------------
(* Field-code substitution *)

\* DesktopEntry::name(locale): the entry's name under an Option<&str> locale
Name(e, locale) ==
    IF locale \in DOMAIN e.name THEN e.name[locale] ELSE None

\* the locale get_args hands to name(): LANG split at its first `.`
LangLocale(lang) ==
    LET sp == SplitOnce(lang, ".")
    IN  IF IsSome(sp) THEN Some(Unwrap(sp)[1]) ELSE None

\* faulty variant of SubstArg: the list codes take the first uri only
SubstArgFirstUriOnly(e, us, ev, arg) ==
    IF arg.tag \in {"SingleFileName", "SingleUrl", "FileList", "UrlList"}
    THEN (IF Len(us) > 0 THEN Some(us[1]) ELSE None)
    ELSE IF arg.tag = "IconKey" THEN e.icon
    ELSE IF arg.tag = "TranslatedName"
    THEN (IF IsSome(ev.LANG) THEN Name(e, LangLocale(Unwrap(ev.LANG))) ELSE None)
    ELSE IF arg.tag = "DesktopFileLocation" THEN Some(e.file)
    ELSE Some(arg.val)

\* the closure of get_args: Some(argument) or None for one ArgOrFieldCode
SubstArg(e, us, ev, arg) ==
    IF arg.tag \in {"SingleFileName", "SingleUrl"}
    THEN (IF Len(us) > 0 THEN Some(us[1]) ELSE None)
    ELSE IF arg.tag \in {"FileList", "UrlList"}
    THEN (IF us # <<>> THEN Some(Join(us, <<Space>>)) ELSE None)
    ELSE IF arg.tag = "IconKey" THEN e.icon
    ELSE IF arg.tag = "TranslatedName"
    THEN (IF IsSome(ev.LANG) THEN Name(e, LangLocale(Unwrap(ev.LANG))) ELSE None)
    ELSE IF arg.tag = "DesktopFileLocation" THEN Some(e.file)
    ELSE Some(arg.val)

RECURSIVE GetArgs(_, _, _, _)

\* faulty variant of GetArgs: the arguments are collected back to front
GetArgsReversed(e, us, ev, eargs) ==
    IF eargs = <<>> THEN <<>>
    ELSE GetArgs(e, us, ev, Tail(eargs)) \o SubstArg(e, us, ev, Head(eargs))

\* DesktopEntry::get_args: filter_map of the closure, collected in order
GetArgs(e, us, ev, eargs) ==
    IF eargs = <<>> THEN <<>>
    ELSE SubstArg(e, us, ev, Head(eargs)) \o GetArgs(e, us, ev, Tail(eargs))

----------------------------------------------------------------------------
(* Command, GPU preference, terminal detection *)

\* Command::new(program)
NewCommand(program) ==
    [program |-> program, args |-> <<>>, envs |-> {}, cwd |-> None]

\* with_non_default_gpu: a gpu is the set of its launch_options() pairs
WithNonDefaultGpu(c, g) ==
    LET sel == IF g.switchable THEN g.non_default ELSE g.default
    IN  IF IsSome(sel) THEN [c EXCEPT !.envs = c.envs \cup Unwrap(sel)] ELSE c

SYMLINK == <<"/", "u", "s", "r", "/", "b", "i", "n", "/", "x", "-", "t", "e", "r", "m", "i", "n", "a", "l", "-", "e", "m", "u", "l", "a", "t", "o", "r">>
GnomeTerminalPath == <<"/", "u", "s", "r", "/", "b", "i", "n", "/", "g", "n", "o", "m", "e", "-", "t", "e", "r", "m", "i", "n", "a", "l">>
KonsolePath == <<"/", "u", "s", "r", "/", "b", "i", "n", "/", "k", "o", "n", "s", "o", "l", "e">>
GnomeTerminalName == <<"g", "n", "o", "m", "e", "-", "t", "e", "r", "m", "i", "n", "a", "l">>
DashDash == <<"-", "-">>
DashE == <<"-", "e">>
DashC == <<"-", "c">>

\* std::fs::read_link: Some(target) for a symlink, None for Err
ReadLink(f, p) == IF p \in DOMAIN f.links THEN Some(f.links[p]) ELSE None

\* Path::exists
Exists(f, p) == p \in f.files

\* detect_terminal: the (terminal, separator) pair
DetectTerminal(f) ==
    LET found == ReadLink(f, SYMLINK)
    IN  IF IsSome(found)
        THEN LET arg == IF Contains(Unwrap(found), GnomeTerminalName)
                        THEN DashDash ELSE DashE
                 next == ReadLink(f, Unwrap(found))
             IN  <<IF IsSome(next) THEN Unwrap(next) ELSE Unwrap(found), arg>>
        ELSE IF Exists(f, GnomeTerminalPath)
             THEN <<GnomeTerminalPath, DashDash>>
             ELSE <<KonsolePath, DashE>>

----------------------------------------------------------------------------
(* launch and shell_launch, step by step *)

\* faulty variant of UseBus: is_bus_actionable is not consulted
UseBusWheneverConnected(b) == b.session

\* the match of launch: dbus_launch is called iff the connection is Ok and
\* is_bus_actionable(&conn) holds
UseBus(b) == b.session /\ b.actionable

\* faulty variant of UnquoteExec: UnmatchedQuote carries the string after the
\* opening quote was stripped
UnquoteExecReportingStripped(e) ==
    LET unquoted == StripPrefix(e, Quote)
    IN  IF IsSome(unquoted)
        THEN LET inner == StripSuffix(Unwrap(unquoted), Quote)
             IN  IF IsSome(inner) THEN [err |-> None, val |-> Unwrap(inner)]
                 ELSE [err |-> Some(UnmatchedQuote(Unwrap(unquoted))), val |-> e]
        ELSE [err |-> None, val |-> e]

\* quote handling of shell_launch: strip_prefix('"') then strip_suffix('"')
\* with ok_or(UnmatchedQuote { exec })?
UnquoteExec(e) ==
    LET unquoted == StripPrefix(e, Quote)
    IN  IF IsSome(unquoted)
        THEN LET inner == StripSuffix(Unwrap(unquoted), Quote)
             IN  IF IsSome(inner) THEN [err |-> None, val |-> Unwrap(inner)]
                 ELSE [err |-> Some(UnmatchedQuote(e)), val |-> e]
        ELSE [err |-> None, val |-> e]

\* the `-c` argument: the joined arguments, wrapped in the terminal if asked
ShellArgument(t, joined) ==
    IF IsSome(t)
    THEN Unwrap(t)[1] \o <<Space>> \o Unwrap(t)[2] \o <<Space>> \o joined
    ELSE joined

\* the Command of shell_launch up to .args(..)
BuildCommand(shell, prefer, g, t, joined) ==
    LET c0 == NewCommand(shell)
        c1 == IF prefer THEN WithNonDefaultGpu(c0, g) ELSE c0
    IN  [c1 EXCEPT !.args = <<DashC, ShellArgument(t, joined)>>]

\* the check of the Option<ExitStatus> of try_wait
StatusResult(status, e) ==
    IF IsSome(status) /\ ~Unwrap(status).success
    THEN NonZeroStatusCode(Unwrap(status).code, e)
    ELSE Ok

\* faulty variant of Launch: a failed session-bus connection is returned as
\* an error
LaunchFailingWithoutBus ==
    /\ pc = "launch"
    /\ call' = [uris |-> uris, gpu |-> gpu]
    /\ trace' = IF bus.session THEN trace \o <<"session", "is_bus_actionable">>
                ELSE Append(trace, "session")
    /\ pc' = IF ~bus.session THEN "return"
             ELSE IF UseBus(bus) THEN "dbus_launch" ELSE "shell_launch"
    /\ ret' = IF ~bus.session THEN Some(BusError) ELSE ret
    /\ UNCHANGED <<inputs, exec, exec_args, args, term, cmd, spawned, activated, result>>

Launch ==
    /\ pc = "launch"
    /\ call' = [uris |-> uris, gpu |-> gpu]
    /\ trace' = IF bus.session THEN trace \o <<"session", "is_bus_actionable">>
                ELSE Append(trace, "session")
    /\ pc' = IF UseBus(bus) THEN "dbus_launch" ELSE "shell_launch"
    /\ UNCHANGED <<inputs, locals, result>>

\* dbus_launch: activation of the entry over the bus with the given uris
DbusLaunch ==
    /\ pc = "dbus_launch"
    /\ activated' = Append(activated, call.uris)
    /\ ret' = Some(IF bus.activate THEN Ok ELSE BusError)
    /\ trace' = Append(trace, "dbus_launch")
    /\ pc' = "return"
    /\ UNCHANGED <<inputs, call, exec, exec_args, args, term, cmd, spawned, result>>

\* shell_launch: self.exec(), MissingExecKey, quote handling
ShellExec ==
    /\ pc = "shell_launch"
    /\ IF self.exec = None
       THEN /\ ret' = Some(MissingExecKey(self.file))
            /\ trace' = Append(trace, "exec")
            /\ pc' = "return"
            /\ exec' = exec
       ELSE LET u == UnquoteExec(Unwrap(self.exec))
            IN  /\ trace' = trace \o <<"exec", "unquote">>
                /\ ret' = u.err
                /\ exec' = u.val
                /\ pc' = IF IsSome(u.err) THEN "return" ELSE "classify"
    /\ UNCHANGED <<inputs, call, exec_args, args, term, cmd, spawned, activated, result>>

\* shell_launch: the loop over exec.split_ascii_whitespace()
ShellClassify ==
    /\ pc = "classify"
    /\ LET r == ClassifyAll(SplitAsciiWhitespace(exec), <<>>)
       IN  /\ exec_args' = r.vec
           /\ ret' = r.err
           /\ pc' = IF IsSome(r.err) THEN "return" ELSE "get_args"
    /\ trace' = Append(trace, "classify")
    /\ UNCHANGED <<inputs, call, exec, args, term, cmd, spawned, activated, result>>

\* faulty variant of ShellGetArgs: the EmptyExecString check is missing
ShellGetArgsUnchecked ==
    /\ pc = "get_args"
    /\ args' = GetArgs(self, call.uris, env, exec_args)
    /\ ret' = None
    /\ pc' = "command"
    /\ trace' = Append(trace, "get_args")
    /\ UNCHANGED <<inputs, call, exec, exec_args, term, cmd, spawned, activated, result>>

\* shell_launch: get_args and the EmptyExecString check
ShellGetArgs ==
    /\ pc = "get_args"
    /\ LET a == GetArgs(self, call.uris, env, exec_args)
       IN  /\ args' = a
           /\ ret' = IF a = <<>> THEN Some(EmptyExecString) ELSE None
           /\ pc' = IF a = <<>> THEN "return" ELSE "command"
    /\ trace' = Append(trace, "get_args")
    /\ UNCHANGED <<inputs, call, exec, exec_args, term, cmd, spawned, activated, result>>

\* shell_launch: join, SHELL, detect_terminal, Command::new, gpu, args
ShellCommand ==
    /\ pc = "command"
    /\ IF env.SHELL = None
       THEN /\ ret' = Some(MissingShellEnvironment)
            /\ pc' = "return"
            /\ trace' = Append(trace, "shell")
            /\ UNCHANGED <<term, cmd>>
       ELSE LET t == IF self.terminal THEN Some(DetectTerminal(fs)) ELSE None
            IN  /\ term' = t
                /\ cmd' = Some(BuildCommand(Unwrap(env.SHELL), call.gpu, gpus, t,
                                            Join(args, <<Space>>)))
                /\ trace' = IF self.terminal
                            THEN trace \o <<"shell", "detect_terminal">>
                            ELSE Append(trace, "shell")
                /\ pc' = "spawn"
                /\ ret' = ret
    /\ UNCHANGED <<inputs, call, exec, exec_args, args, spawned, activated, result>>

\* shell_launch: spawn()?, try_wait()? and the status check
ShellSpawn ==
    /\ pc = "spawn"
    /\ IF ~os.spawn
       THEN /\ ret' = Some(IoError)
            /\ trace' = Append(trace, "spawn")
            /\ spawned' = spawned
       ELSE /\ spawned' = cmd
            /\ trace' = trace \o <<"spawn", "try_wait">>
            /\ ret' = Some(IF ~os.wait THEN IoError ELSE StatusResult(os.status, exec))
    /\ pc' = "return"
    /\ UNCHANGED <<inputs, call, exec, exec_args, args, term, cmd, activated, result>>

\* launch returns what the callee returned
Return ==
    /\ pc = "return"
    /\ result' = ret
    /\ pc' = "done"
    /\ UNCHANGED <<inputs, call, locals, trace>>

----------------------------------------------------------------------------
(* Inputs of a launch call: the entry, the arguments, the world around it *)

BinSh == <<"/", "b", "i", "n", "/", "s", "h">>
AppIcon == <<"a", "p", "p", "-", "i", "c", "o", "n">>
TmpX == <<"/", "t", "m", "p", "/", "x">>
App == <<"a", "p", "p">>
EntryFile == <<"/", "e", ".", "d", "e", "s", "k", "t", "o", "p">>
WorkDir == <<"/", "w">>
AlternativesLink == <<"/", "e", "t", "c", "/", "a", "l", "t", "e", "r", "n", "a", "t", "i", "v", "e", "s", "/", "x", "-", "t", "e", "r", "m", "i", "n", "a", "l", "-", "e", "m", "u", "l", "a", "t", "o", "r">>
GnomeTerminalWrapper == <<"/", "u", "s", "r", "/", "b", "i", "n", "/", "g", "n", "o", "m", "e", "-", "t", "e", "r", "m", "i", "n", "a", "l", ".", "w", "r", "a", "p", "p", "e", "r">>
AppFI == <<"a", "p", "p", " ", "%", "f", " ", "%", "i">>
QuotedAppArg == <<"\"", "a", "p", "p", " ", "a", "r", "g", "\"">>
UnmatchedAppArg == <<"\"", "a", "p", "p", " ", "a", "r", "g">>
LangIt == <<"i", "t">>
LangItUtf == <<"i", "t", ".", "U">>
LangEnUtf == <<"e", "n", ".", "U">>
NameDefault == <<"N">>
NameIt == <<"T">>

\* all strings over the alphabet of at most n characters
Alphabet == {Quote, Space, Percent, "f", "d"}

RECURSIVE StringsUpTo(_)
StringsUpTo(n) ==
    IF n = 0 THEN {<<>>}
    ELSE LET prev == StringsUpTo(n - 1)
         IN  prev \cup {Append(s, c) : s \in prev, c \in Alphabet}

\* all sequences over S of at most n elements
RECURSIVE SeqsUpTo(_, _)
SeqsUpTo(S, n) ==
    IF n = 0 THEN {<<>>}
    ELSE LET prev == SeqsUpTo(S, n - 1)
         IN  prev \cup {Append(s, x) : s \in prev, x \in S}

UriTokens == {<<"%", "f">>, <<"%", "F">>, <<"%", "u">>, <<"%", "U">>, <<"%", "i">>,
              <<"%", "c">>, <<"%", "k">>, App}
NameTokens == {<<"%", "c">>, <<"%", "i">>, App}
UriExecs == {Join(ts, <<Space>>) : ts \in SeqsUpTo(UriTokens, MaxTokens)}
NameExecs == {Join(ts, <<Space>>) : ts \in SeqsUpTo(NameTokens, MaxTokens)}
\* the recognised codes, the deprecated codes, codes that differ from a
\* recognised one by case or by length, a bare %, and literals
CodeTokens == {<<"%", "f">>, <<"%", "F">>, <<"%", "u">>, <<"%", "U">>, <<"%", "i">>,
               <<"%", "c">>, <<"%", "k">>,
               <<"%", "d">>, <<"%", "D">>, <<"%", "n">>, <<"%", "N">>, <<"%", "v">>,
               <<"%", "m">>,
               <<"%", "x">>, <<"%", "C">>, <<"%", "I">>, <<"%", "K">>, <<"%", "V">>,
               <<"%", "M">>, <<"%">>, <<"%", "f", "f">>, <<"f", "%">>, App}
CodeExecs == {Join(ts, <<Space>>) : ts \in SeqsUpTo(CodeTokens, MaxTokens)}
UriLists == SeqsUpTo({<<"a">>, <<"b">>}, MaxUris)

NameTables == [{None, Some(LangIt)} -> {None, Some(NameDefault), Some(NameIt)}]
Langs == {None, Some(LangIt), Some(LangItUtf), Some(LangEnUtf)}

Entry(e, i, n, p, t) ==
    [exec |-> e, icon |-> i, name |-> n, path |-> p, terminal |-> t, file |-> EntryFile]
DefaultNames == [l \in {None, Some(LangIt)} |-> IF l = None THEN Some(NameDefault) ELSE Some(NameIt)]
DefaultEnv == [LANG |-> Some(LangItUtf), SHELL |-> Some(BinSh)]
NoBus == [session |-> FALSE, actionable |-> FALSE, activate |-> TRUE]
Buses == {NoBus,
          [session |-> TRUE, actionable |-> FALSE, activate |-> TRUE],
          [session |-> TRUE, actionable |-> TRUE, activate |-> TRUE],
          [session |-> TRUE, actionable |-> TRUE, activate |-> FALSE]}
NoLinks == [p \in {} |-> p]
DefaultFs == [links |-> NoLinks, files |-> {}]
LinkTables == UNION {[D -> {GnomeTerminalPath, AlternativesLink, KonsolePath,
                            GnomeTerminalWrapper}] :
                     D \in SUBSET {SYMLINK, AlternativesLink}}
FsStates == {[links |-> l, files |-> fl] : l \in LinkTables, fl \in {{}, {GnomeTerminalPath}}}
NoGpus == [switchable |-> FALSE, non_default |-> None, default |-> None]
GpuStates == {[switchable |-> s, non_default |-> n, default |-> d] :
              s \in BOOLEAN,
              n \in {None, Some({<<"DRI_PRIME", "1">>})},
              d \in {None, Some({<<"DRI_PRIME", "0">>})}}
Running == [spawn |-> TRUE, wait |-> TRUE, status |-> None]
OsStates == {Running,
             [spawn |-> FALSE, wait |-> TRUE, status |-> None],
             [spawn |-> TRUE, wait |-> FALSE, status |-> None],
             [spawn |-> TRUE, wait |-> TRUE, status |-> Some([success |-> TRUE, code |-> Some(0)])],
             [spawn |-> TRUE, wait |-> TRUE, status |-> Some([success |-> FALSE, code |-> Some(1)])],
             [spawn |-> TRUE, wait |-> TRUE, status |-> Some([success |-> FALSE, code |-> None])]}

\* the launch of entry e with uris u and gpu preference g, in a world of
\* environment ev, bus b, filesystem f, gpus gp and process outcomes o
Start(e, u, g, ev, b, f, gp, o) ==
    /\ self = e
    /\ uris = u
    /\ gpu = g
    /\ env = ev
    /\ bus = b
    /\ fs = f
    /\ gpus = gp
    /\ os = o
    /\ pc = "launch"
    /\ call = [uris |-> <<>>, gpu |-> FALSE]
    /\ exec = <<>>
    /\ exec_args = <<>>
    /\ args = <<>>
    /\ term = None
    /\ cmd = None
    /\ spawned = None
    /\ activated = <<>>
    /\ ret = None
    /\ result = None
    /\ trace = <<>>

\* every Exec string up to MaxExecLen, or no Exec key, on the bus and the shell path
GrammarInit ==
    \E e \in {None} \cup {Some(s) : s \in StringsUpTo(MaxExecLen)},
       u \in {<<>>, <<<<"a">>>>},
       b \in {x \in Buses : x.activate} :
        Start(Entry(e, None, DefaultNames, None, FALSE), u, FALSE, DefaultEnv, b,
              DefaultFs, NoGpus, Running)

\* every field code, recognised, deprecated or unknown, on the shell path
CodeInit ==
    \E e \in CodeExecs, u \in {<<>>, <<<<"a">>>>} :
        Start(Entry(Some(e), None, DefaultNames, None, FALSE), u, FALSE, DefaultEnv,
              NoBus, DefaultFs, NoGpus, Running)

\* the uri field codes against the uri list and the icon
UriInit ==
    \E e \in UriExecs, u \in UriLists \cup {<<<<>>>>}, i \in {None, Some(AppIcon)} :
        Start(Entry(Some(e), i, DefaultNames, None, FALSE), u, FALSE, DefaultEnv, NoBus,
              DefaultFs, NoGpus, Running)

\* %c and %i against LANG and the names of the entry
NameInit ==
    \E e \in NameExecs, n \in NameTables, l \in Langs :
        Start(Entry(Some(e), Some(AppIcon), n, None, FALSE), <<<<"a">>>>, FALSE,
              [LANG |-> l, SHELL |-> Some(BinSh)], NoBus, DefaultFs, NoGpus, Running)

\* terminal entries against the filesystem
TerminalInit ==
    \E f \in FsStates :
        Start(Entry(Some(App), None, DefaultNames, None, TRUE), <<>>, FALSE, DefaultEnv,
              NoBus, f, NoGpus, Running)

\* the spawn: working directory, terminal, SHELL, bus, spawn and wait outcomes
SpawnInit ==
    \E p \in {None, Some(WorkDir)}, t \in BOOLEAN, g \in BOOLEAN,
       sh \in {None, Some(BinSh)}, b \in Buses, o \in OsStates :
        Start(Entry(Some(App), None, DefaultNames, p, t), <<>>, g,
              [LANG |-> None, SHELL |-> sh], b, DefaultFs, NoGpus, o)

\* the gpu preference against the gpus of the system
GpuInit ==
    \E t \in BOOLEAN, gp \in GpuStates :
        Start(Entry(Some(App), None, DefaultNames, None, t), <<>>, TRUE, DefaultEnv,
              NoBus, DefaultFs, gp, Running)

\* the entries of the documented scenarios and of the test fixtures
SampleInit ==
    \E e \in {AppFI, QuotedAppArg, UnmatchedAppArg, <<>>, <<"\t", "f", "\n">>,
              <<"%", "F", " ", "%", "c", " ", "%", "k">>},
       u \in {<<>>, <<TmpX>>, <<<<"a">>, <<"b">>>>}, b \in Buses :
        Start(Entry(Some(e), Some(AppIcon), DefaultNames, None, FALSE), u, FALSE,
              DefaultEnv, b, DefaultFs, NoGpus, Running)

Init ==
    \/ GrammarInit
    \/ CodeInit
    \/ UriInit
    \/ NameInit
    \/ TerminalInit
    \/ SpawnInit
    \/ GpuInit
    \/ SampleInit

Next ==
    \/ Launch
    \/ DbusLaunch
    \/ ShellExec
    \/ ShellClassify
    \/ ShellGetArgs
    \/ ShellCommand
    \/ ShellSpawn
    \/ Return

Spec == Init /\ [][Next]_vars

----------------------------------------------------------------------------
(* Vocabulary of the properties *)

Done == pc = "done"
Ran(step) == \E i \in DOMAIN trace : trace[i] = step
LastStep == trace[Len(trace)]
BusPath == bus.session /\ bus.actionable

Recognized == {<<"%", "f">>, <<"%", "F">>, <<"%", "u">>, <<"%", "U">>, <<"%", "i">>,
               <<"%", "c">>, <<"%", "k">>}
Deprecated == {<<"%", "d">>, <<"%", "D">>, <<"%", "n">>, <<"%", "N">>, <<"%", "v">>,
               <<"%", "m">>}
UriCodes == {<<"%", "f">>, <<"%", "F">>, <<"%", "u">>, <<"%", "U">>}

\* the string starts with a double quote
OpensQuote(e) == Len(e) > 0 /\ e[1] = Quote
\* the string is wrapped in a pair of double quotes, two distinct characters
Wrapped(e) == Len(e) >= 2 /\ e[1] = Quote /\ e[Len(e)] = Quote
\* an opening quote with no matching closing quote
Unmatched(e) == OpensQuote(e) /\ ~Wrapped(e)
\* the string with its one wrapping pair of quotes removed
Unwrapped(e) == IF Wrapped(e) THEN [i \in 1..(Len(e) - 2) |-> e[i + 1]] ELSE e

\* the positions of the tokens that start with % and are no recognised code
Offending(toks) ==
    {i \in DOMAIN toks : toks[i][1] = Percent /\ toks[i] \notin Recognized}
FirstOffending(toks) ==
    CHOOSE i \in Offending(toks) : \A j \in Offending(toks) : i <= j
FieldCodeError(tok) ==
    IF tok \in Deprecated THEN DeprecatedFieldCode(tok) ELSE UnknownFieldCode(tok)

\* the error the Exec key of the entry stands for, when it can be told from
\* the entry and the uris alone
ExecFault ==
    IF self.exec = None THEN Some(MissingExecKey(self.file))
    ELSE LET e == Unwrap(self.exec)
             toks == SplitAsciiWhitespace(Unwrapped(e))
         IN  IF Unmatched(e) THEN Some(UnmatchedQuote(e))
             ELSE IF Offending(toks) # {}
                  THEN Some(FieldCodeError(toks[FirstOffending(toks)]))
             ELSE IF (\A i \in DOMAIN toks : toks[i] \in UriCodes)
                         /\ (toks = <<>> \/ uris = <<>>)
                  THEN Some(EmptyExecString)
             ELSE None

\* the step at which shell_launch returns each of these errors
FaultStep(tag) ==
    IF tag = "MissingExecKey" THEN "exec"
    ELSE IF tag = "UnmatchedQuote" THEN "unquote"
    ELSE IF tag = "EmptyExecString" THEN "get_args"
    ELSE "classify"

Steps == <<"session", "is_bus_actionable", "dbus_launch", "exec", "unquote", "classify",
           "get_args", "shell", "detect_terminal", "spawn", "try_wait">>
StepIndex(s) == CHOOSE i \in DOMAIN Steps : Steps[i] = s
\* the steps taken so far were taken in the order of Steps
InOrder == \A i, j \in DOMAIN trace : i < j => StepIndex(trace[i]) < StepIndex(trace[j])

----------------------------------------------------------------------------
(* C1 *)

----------------------------------------------------------------------------
(* C2 *)

----------------------------------------------------------------------------
(* C3 *)

\* out is toks, left to right, with every token not starting with % kept
\* unchanged as one argument and every other token replaced by one argument
\* or by nothing
RECURSIVE Threads(_, _)
Threads(toks, out) ==
    IF toks = <<>> THEN out = <<>>
    ELSE IF Head(toks)[1] # Percent
         THEN out # <<>> /\ Head(out) = Head(toks) /\ Threads(Tail(toks), Tail(out))
         ELSE \/ Threads(Tail(toks), out)
              \/ out # <<>> /\ Threads(Tail(toks), Tail(out))

\* no value a field code can be replaced by is the empty string
NoEmptyValue ==
    /\ \A i \in DOMAIN uris : uris[i] # <<>>
    /\ self.icon # Some(<<>>)
    /\ \A l \in DOMAIN self.name : self.name[l] # Some(<<>>)
    /\ self.file # <<>>

\* C3: once get_args has run, the arguments are the tokens of the Exec string
\* in their order, each literal token unchanged as exactly one argument, each
\* field code giving one argument or none; a dropped field code leaves no
\* empty-string argument; `app %f %i` with icon app-icon and uris ["/tmp/x"]
\* resolves to ["app", "/tmp/x", "app-icon"].
C3_OrderPreserved ==
    Ran("get_args") =>
        /\ Threads(SplitAsciiWhitespace(exec), args)
        /\ NoEmptyValue => \A i \in DOMAIN args : args[i] # <<>>
        /\ (self.exec = Some(AppFI) /\ self.icon = Some(AppIcon) /\ uris = <<TmpX>>)
              => args = <<App, TmpX, AppIcon>>

\* C3 witness: get_args ran on a literal followed by two field codes, the
\* first dropped and the second replaced
C3_Witness ==
    /\ Ran("get_args")
    /\ SplitAsciiWhitespace(exec) = <<App, <<"%", "f">>, <<"%", "i">>>>
    /\ uris = <<>>
    /\ args = <<App, AppIcon>>

----------------------------------------------------------------------------
(* C4 *)

\* the elements of us in order with one space between neighbours
RECURSIVE Spaced(_)
Spaced(us) ==
    IF Len(us) = 1 THEN us[1]
    ELSE Spaced(SubSeq(us, 1, Len(us) - 1)) \o <<" ">> \o us[Len(us)]

\* what a uri field code or a literal token stands for, given the uri list alone
UriExpected(tok, us) ==
    IF tok \in {<<"%", "f">>, <<"%", "u">>} THEN (IF us = <<>> THEN <<>> ELSE <<us[1]>>)
    ELSE IF tok \in {<<"%", "F">>, <<"%", "U">>}
         THEN (IF us = <<>> THEN <<>> ELSE <<Spaced(us)>>)
    ELSE <<tok>>

RECURSIVE UriExpectedAll(_, _)
UriExpectedAll(toks, us) ==
    IF toks = <<>> THEN <<>>
    ELSE UriExpectedAll(SubSeq(toks, 1, Len(toks) - 1), us)
             \o UriExpected(toks[Len(toks)], us)

\* C4: for an Exec made of uri field codes and literal tokens, whatever the
\* icon, names and environment: with no uris every %f %u %F %U is dropped;
\* otherwise %f and %u give the first uri and %F and %U give one argument, the
\* uris in order joined by single spaces (["a","b"] gives "a b").
C4_UriCodes ==
    LET toks == SplitAsciiWhitespace(exec)
    IN  (Ran("get_args") /\ \A i \in DOMAIN toks : toks[i] \in UriCodes \/ toks[i][1] # Percent)
          => /\ args = UriExpectedAll(toks, uris)
             /\ (uris = <<<<"a">>, <<"b">>>> /\ toks = <<<<"%", "F">>>>)
                   => args = <<<<"a", " ", "b">>>>

\* C4 witness: %U then %f substituted against two uris
C4_Witness ==
    /\ Ran("get_args")
    /\ SplitAsciiWhitespace(exec) = <<<<"%", "U">>, <<"%", "f">>>>
    /\ uris = <<<<"a">>, <<"b">>>>
    /\ args = <<<<"a", " ", "b">>, <<"a">>>>

----------------------------------------------------------------------------
(* C5 *)

\* C5: on the shell path a substitution that leaves no argument makes launch
\* return EmptyExecString: so do an empty or all-whitespace Exec and an Exec
\* of uri field codes launched without uris; nothing is ever spawned from an
\* empty argument list.
C5_NeverEmptyCommand ==
    /\ (Done /\ Ran("get_args") /\ args = <<>>) =>
          result = Some(EmptyExecString) /\ spawned = None
    /\ (Done /\ ~BusPath /\ IsSome(self.exec) /\ ~Unmatched(Unwrap(self.exec))) =>
          LET toks == SplitAsciiWhitespace(Unwrapped(Unwrap(self.exec)))
          IN  ((\A i \in DOMAIN toks : toks[i] \in UriCodes) /\ (toks = <<>> \/ uris = <<>>))
                => result = Some(EmptyExecString) /\ spawned = None
    /\ IsSome(spawned) => (Ran("get_args") /\ args # <<>>)
    /\ IsSome(cmd) => args # <<>>

\* C5 witness: `%f` launched without uris on the shell path
C5_Witness ==
    /\ Done
    /\ ~BusPath
    /\ SplitAsciiWhitespace(exec) = <<<<"%", "f">>>>
    /\ uris = <<>>
    /\ result = Some(EmptyExecString)

----------------------------------------------------------------------------
(* C6 *)

----------------------------------------------------------------------------
(* C7 *)

\* the number of times a step was taken
Times(step) == Cardinality({i \in DOMAIN trace : trace[i] = step})

\* C7: a finished launch took exactly one strategy: bus activation iff the
\* session bus connected and the entry is bus-actionable, the shell path
\* otherwise.  With no session bus the result is the one shell_launch
\* returned for the same uris and gpu flag, never an error of the bus.
\* A bus activation spawns nothing.
C7_OneStrategy ==
    Done =>
        /\ Times("dbus_launch") + Times("exec") = 1
        /\ Ran("dbus_launch") <=> (bus.session /\ bus.actionable)
        /\ Len(activated) = Times("dbus_launch")
        /\ call = [uris |-> uris, gpu |-> gpu]
        /\ ~bus.session =>
              /\ Ran("exec")
              /\ result = ret
              /\ IsSome(result)
              /\ Unwrap(result).tag # "BusError"
              /\ (IsSome(ExecFault) => result = ExecFault)
              /\ (ExecFault = None /\ IsSome(env.SHELL) /\ os = Running
                    /\ Ran("get_args") /\ args # <<>>) => (result = Some(Ok) /\ IsSome(spawned))
        /\ Ran("dbus_launch") => (spawned = None /\ cmd = None)

\* C7 witness: without a session bus the shell path spawned and returned Ok
C7_Witness ==
    /\ Done
    /\ ~bus.session
    /\ IsSome(spawned)
    /\ result = Some(Ok)

----------------------------------------------------------------------------
(* C8 *)

\* C8: a spawned child has the entry's path as its working directory when the
\* entry declares one, and the inherited one otherwise.
C8_WorkingDirectory ==
    IsSome(spawned) => Unwrap(spawned).cwd = self.path

----------------------------------------------------------------------------
(* C9 *)

\* the locale of a LANG value: the part before the first `.`, or all of it
LocaleOfLang(lang) ==
    IF \E i \in DOMAIN lang : lang[i] = "."
    THEN SubSeq(lang, 1, (CHOOSE i \in DOMAIN lang :
                              lang[i] = "." /\ \A j \in 1..(i - 1) : lang[j] # ".") - 1)
    ELSE lang

\* C9: %c is replaced by the entry's name under the locale of LANG, and is
\* dropped when LANG is unset or the entry has no name for that locale.
C9_TranslatedName ==
    (Ran("get_args") /\ SplitAsciiWhitespace(exec) = <<<<"%", "c">>>>) =>
        args = IF env.LANG = None THEN <<>>
               ELSE Name(self, Some(LocaleOfLang(Unwrap(env.LANG))))

----------------------------------------------------------------------------
(* C10 *)

\* C10: detect_terminal always returns a pair.  With the symlink present the
\* path is its target, followed once more when that is a symlink too, and the
\* separator is `--` exactly when the returned path contains gnome-terminal,
\* else `-e`; without it the pair is gnome-terminal with `--` when that file
\* exists, else konsole with `-e`.
C10_DetectTerminal ==
    (Ran("detect_terminal") /\ IsSome(term)) =>
        LET path == Unwrap(term)[1]
            sep == Unwrap(term)[2]
        IN  IF SYMLINK \in DOMAIN fs.links
            THEN LET found == fs.links[SYMLINK]
                 IN  /\ path = IF found \in DOMAIN fs.links THEN fs.links[found] ELSE found
                     /\ sep = IF Contains(path, GnomeTerminalName) THEN DashDash ELSE DashE
            ELSE IF GnomeTerminalPath \in fs.files
                 THEN path = GnomeTerminalPath /\ sep = DashDash
                 ELSE path = KonsolePath /\ sep = DashE

====
